---- MODULE Spec2Model ----
(***************************************************************************)
(* Verification model of kaziashike/smart-youtube-agent.                   *)
(*                                                                         *)
(* The program keeps its state in flat JSON files (videos.json,            *)
(* users.json, subscriptions.json, billing.json, usage.json,               *)
(* automation_settings.json) that every operation loads whole, changes in  *)
(* memory and writes back whole.  Each file is one variable here; each     *)
(* handler is one action; a coroutine is cut into one action per stretch   *)
(* of code between two awaits, with its local dicts kept as variables.     *)
(*                                                                         *)
(* Ten specifications share the module, one per subsystem:                 *)
(*   SpecVideo  video_manager.py  (create / process_video / delete)        *)
(*   SpecSub    subscription_manager.py: subscriptions and billing         *)
(*   SpecLimit  the create_video route, video limits and usage             *)
(*   SpecAuth   auth.py signup                                             *)
(*   SpecAuto   automation_manager.py and the schedule library             *)
(*   SpecCalc   the pure function _calculate_next_upload                   *)
(*   SpecLogin  auth.py login_user                                         *)
(*   SpecThreads  the threads writing user_data/<user>/videos.json         *)
(*   SpecProfile  users.json against the subscription operations           *)
(*   SpecIntent   ai_brain.py analyze_intent                               *)
(*                                                                         *)
(* Left out: timestamps created_at/updated_at/date (no operation reads     *)
(* them), titles, descriptions and other free text, invoice ids, and I/O   *)
(* failures of the JSON stores themselves.  The import inside signup_user  *)
(* is taken to succeed; the video generator behind the scheduler may fail. *)
(* Random ids (secrets.token_hex, uuid4) are fresh.                        *)
(* One json.load and one json.dump are each atomic; response timing is     *)
(* not modelled.                                                           *)
(***************************************************************************)
EXTENDS Integers, Sequences, FiniteSets, TLC

\* ------------------------------------------------------------------------
\* Bounds of the model
\* ------------------------------------------------------------------------
MaxVideos == 2
MaxRequests == 4
MaxNow == 400
MaxUsageNow == 60
MaxBilling == 3
MaxJobs == 3
MaxDay == 7
MaxPrepared == 2
MaxDays == 2
MaxUserVideos == 2

\* ------------------------------------------------------------------------
\* Program constants
\* ------------------------------------------------------------------------
TrialDays == 14
MonthlyDays == 30
YearlyDays == 365

Users == {"u1", "u2"}
None == "None"
NoDate == -1
NoPath == <<>>

VARIABLES
    videos,         \* videos.json: video_id -> record
    files,          \* artifact files on disk (paths)
    pc,             \* position of each process_video task
    snap,           \* local `videos` of process_video (loaded once, line 119)
    stepSnap,       \* local `videos` of the generate_* / finalize step in progress
    nextId,         \* the next video id to hand out
    deleted,        \* ids for which delete_video returned True
    users,          \* users.json: user_id -> record
    subscriptions,  \* subscriptions.json: user_id -> record
    billing,        \* billing.json: user_id -> sequence of records
    usage,          \* usage.json: <<user_id, month>> -> record
    now,            \* datetime.utcnow(), in days
    ret,            \* the response given in the last step, if it was a request
    settings,       \* automation_settings.json / self.settings: user_id -> record
    jobs,           \* jobs of the schedule module's default scheduler
    ownJobs,        \* jobs of self.scheduler, the manager's own Scheduler()
    running,        \* self.running: the scheduler thread is polling
    clock,          \* datetime.now(): day number and minute of the day
    prepared,       \* number of prepared records _create_automated_video has saved
    settingsArg,    \* the settings dict handed to _calculate_next_upload
    userVideos,     \* user_data/<user_id>/videos.json of one user: list of records
    threads,        \* the threads at work on that file and the lists they hold
    intentArgs      \* the message and the LLM's answer handed to analyze_intent

vars == <<videos, files, pc, snap, stepSnap, nextId, deleted,
          users, subscriptions, billing, usage, now, ret,
          settings, jobs, ownJobs, running, clock, prepared, settingsArg,
          userVideos, threads, intentArgs>>

videoVars == <<videos, files, pc, snap, stepSnap, nextId, deleted>>
subVars == <<users, subscriptions, billing, usage, now>>
autoVars == <<settings, jobs, ownJobs, running, clock, prepared, settingsArg>>
threadVars == <<userVideos, threads>>

\* ------------------------------------------------------------------------
\* Helpers for JSON dicts (partial functions)
\* ------------------------------------------------------------------------
Put(f, k, v) == [x \in (DOMAIN f) \cup {k} |-> IF x = k THEN v ELSE f[x]]

Del(f, k) == [x \in (DOMAIN f) \ {k} |-> f[x]]

EmptyDict == [x \in {} |-> None]

Response(op, status, detail) == [op |-> op, status |-> status, detail |-> detail]

\* ret in a step that answers no request (a background task, the clock)
NoResponse == Response("none", 0, None)


\* ------------------------------------------------------------------------
\* subscription_manager.py: tiers, usage, limits
\* ------------------------------------------------------------------------
TierNames == {"Free", "Starter", "Professional", "Enterprise"}

\* self.tiers (prices in dollars; -1 is unlimited)
Tiers ==
    [t \in TierNames |->
        CASE t = "Free"         -> [price_monthly |-> 0,   price_yearly |-> 0,    video_limit |-> 3]
          [] t = "Starter"      -> [price_monthly |-> 29,  price_yearly |-> 290,  video_limit |-> 20]
          [] t = "Professional" -> [price_monthly |-> 79,  price_yearly |-> 790,  video_limit |-> 100]
          [] t = "Enterprise"   -> [price_monthly |-> 199, price_yearly |-> 1990, video_limit |-> -1]]

\* datetime.utcnow().strftime("%Y-%m"), on a calendar of 30-day months
DaysPerMonth == 30
MonthOf(t) == t \div DaysPerMonth

\* get_usage_metrics(user_id, month).videos_created, 0 when there is no entry
VideosCreated(u, month) ==
    IF <<u, month>> \in DOMAIN usage THEN usage[<<u, month>>].videos_created ELSE 0

\* a check_video_limit that compared with <= instead of <
check_video_limit_OffByOne(u) ==
    IF u \notin DOMAIN subscriptions THEN FALSE
    ELSE IF subscriptions[u].tier \notin DOMAIN Tiers THEN FALSE
    ELSE IF Tiers[subscriptions[u].tier].video_limit = -1 THEN TRUE
    ELSE VideosCreated(u, MonthOf(now)) <= Tiers[subscriptions[u].tier].video_limit

check_video_limit(u) ==
    IF u \notin DOMAIN subscriptions THEN FALSE
    ELSE IF subscriptions[u].tier \notin DOMAIN Tiers THEN FALSE
    ELSE IF Tiers[subscriptions[u].tier].video_limit = -1 THEN TRUE
    ELSE VideosCreated(u, MonthOf(now)) < Tiers[subscriptions[u].tier].video_limit

NewUsage == [videos_created |-> 0, videos_uploaded |-> 0]

UsageMetrics == {"videos_created", "videos_uploaded"}

\* the usage store after update_usage_metrics(user_id, metric_type)
update_usage_metrics(u, metric) ==
    LET k == <<u, MonthOf(now)>>
        cur == IF k \in DOMAIN usage THEN usage[k] ELSE NewUsage
        upd == IF metric \in UsageMetrics
               THEN [cur EXCEPT ![metric] = @ + 1]
               ELSE cur
    IN  Put(usage, k, upd)

\* ------------------------------------------------------------------------
\* video_manager.py
\* ------------------------------------------------------------------------
VideoIds == 1..MaxRequests

Steps == <<"script", "audio", "video", "thumbnail", "finalize">>

StepNames == {Steps[i] : i \in 1..Len(Steps)}

\* the record key each step sets, and the path of the file it writes
PathKey(step) ==
    CASE step = "script"    -> "script_path"
      [] step = "audio"     -> "audio_path"
      [] step = "video"     -> "video_path"
      [] step = "thumbnail" -> "thumbnail_path"
      [] step = "finalize"  -> "local_path"

PathOf(v, step) == <<v, step>>

\* a pipeline whose percentages follow the comments (20, 40, 70, 90, 100)
\* only from the third step on
ProgressAfter_FromComments(step) ==
    CASE step = "script"    -> 30
      [] step = "audio"     -> 50
      [] step = "video"     -> 70
      [] step = "thumbnail" -> 90
      [] step = "finalize"  -> 100

\* the progress process_video stores after each step
ProgressAfter(step) ==
    CASE step = "script"    -> 30
      [] step = "audio"     -> 50
      [] step = "video"     -> 80
      [] step = "thumbnail" -> 95
      [] step = "finalize"  -> 100

StepIndex(step) == CHOOSE i \in 1..Len(Steps) : Steps[i] = step

\* where the task is after `step`: sleeping in the next step, or finished
PcAfter(step) ==
    IF StepIndex(step) < Len(Steps) THEN Steps[StepIndex(step) + 1] ELSE "done"

NewVideo(u) ==
    [user_id |-> u, status |-> "pending", progress |-> 0, error_message |-> None,
     youtube_id |-> None,
     local_path |-> NoPath, thumbnail_path |-> NoPath,
     script_path |-> NoPath, audio_path |-> NoPath, video_path |-> NoPath]

load_videos == videos

\* the content of videos.json after save_videos(dict): the whole file is replaced
save_videos(dict) == dict

\* create_video_request: store the record and create the process_video task
create_video_request(u, v) ==
    /\ videos' = save_videos(Put(load_videos, v, NewVideo(u)))
    /\ pc' = [pc EXCEPT ![v] = "start"]
    /\ nextId' = nextId + 1
    /\ UNCHANGED <<files, snap, stepSnap, deleted>>

\* POST /api/videos/create
create_video(u, cap) ==
    /\ nextId <= cap
    /\ IF ~check_video_limit(u)
       THEN /\ ret' = Response("create_video", 403, "Video limit reached for your subscription tier")
            /\ UNCHANGED <<videoVars, subVars, autoVars, threadVars, intentArgs>>
       ELSE /\ create_video_request(u, nextId)
            /\ usage' = update_usage_metrics(u, "videos_created")
            /\ ret' = Response("create_video", 200, "Video creation started")
            /\ UNCHANGED <<users, subscriptions, billing, now, autoVars, threadVars, intentArgs>>

\* a mark_video_failed that stored the status and forgot the message
mark_video_failed_NoMessage(v, msg) ==
    LET vids == load_videos
    IN  IF v \in DOMAIN vids
        THEN save_videos([vids EXCEPT ![v].status = "failed"])
        ELSE videos

\* mark_video_failed: a fresh load, and a save only when the record is there
mark_video_failed(v, msg) ==
    LET vids == load_videos
    IN  IF v \in DOMAIN vids
        THEN save_videos([vids EXCEPT ![v].status = "failed", ![v].error_message = msg])
        ELSE videos

\* a process_video that reloaded the file before each update would keep the
\* other records as they are now
ProcessDict_Reloaded(v) == Put(load_videos, v, snap[v][v])

\* the dict process_video keeps updating: the one it loaded when it started
ProcessDict(v) == snap[v]

\* process_video up to its first await (the sleep inside generate_script)
ProcessStart(v) ==
    /\ pc[v] = "start"
    /\ LET vids == load_videos
       IN  IF v \notin DOMAIN vids
           THEN /\ pc' = [pc EXCEPT ![v] = "notfound"]
                /\ UNCHANGED <<videos, snap, stepSnap>>
           ELSE LET s1 == [vids EXCEPT ![v].status = "processing", ![v].progress = 10]
                    file1 == save_videos(s1)
                IN  /\ videos' = file1
                    /\ snap' = [snap EXCEPT ![v] = s1]
                    \* generate_script: videos = self.load_videos(); video = videos[video_id]
                    /\ stepSnap' = [stepSnap EXCEPT ![v] = file1]
                    /\ pc' = [pc EXCEPT ![v] = "script"]
    /\ ret' = NoResponse
    /\ UNCHANGED <<files, nextId, deleted, subVars, autoVars, threadVars, intentArgs>>

\* from the end of one step's sleep to the next await: the step writes its file,
\* stores the path in the dict it loaded before the sleep and saves it; process_video
\* stores the progress in its own dict and saves it; the next step loads and sleeps
ProcessStep(v) ==
    /\ pc[v] \in StepNames
    /\ LET step == pc[v]
           t1 == [stepSnap[v] EXCEPT ![v][PathKey(step)] = PathOf(v, step)]
           file1 == save_videos(t1)
           s0 == ProcessDict(v)
           s1 == IF step = "finalize"
                 THEN [s0 EXCEPT ![v].status = "completed", ![v].progress = ProgressAfter(step)]
                 ELSE [s0 EXCEPT ![v].progress = ProgressAfter(step)]
           file2 == save_videos(s1)
       IN  /\ files' = files \cup {PathOf(v, step)}
           /\ videos' = file2
           \* the task's dicts die with it
           /\ snap' = [snap EXCEPT ![v] = IF step = "finalize" THEN EmptyDict ELSE s1]
           /\ stepSnap' = [stepSnap EXCEPT ![v] = IF step = "finalize" THEN EmptyDict ELSE file2]
           /\ pc' = [pc EXCEPT ![v] = PcAfter(step)]
    /\ ret' = NoResponse
    /\ UNCHANGED <<nextId, deleted, subVars, autoVars, threadVars, intentArgs>>

\* a step raises after its sleep (its file cannot be written): process_video's
\* except clause runs mark_video_failed and the task ends
ProcessFail(v) ==
    /\ pc[v] \in StepNames
    /\ videos' = mark_video_failed(v, pc[v])
    /\ pc' = [pc EXCEPT ![v] = "failed"]
    /\ snap' = [snap EXCEPT ![v] = EmptyDict]
    /\ stepSnap' = [stepSnap EXCEPT ![v] = EmptyDict]
    /\ ret' = NoResponse
    /\ UNCHANGED <<files, nextId, deleted, subVars, autoVars, threadVars, intentArgs>>

PathKeys == {"local_path", "thumbnail_path", "script_path", "audio_path", "video_path"}

\* a delete_video that did not compare the owner
delete_video_AnyUser(v, u) ==
    LET vids == load_videos
    IN  IF v \in DOMAIN vids
        THEN /\ files' = files \ {vids[v][k] : k \in PathKeys}
             /\ videos' = save_videos(Del(vids, v))
             /\ deleted' = deleted \cup {v}
             /\ ret' = Response("delete_video", 200, "Video deleted successfully")
        ELSE /\ ret' = Response("delete_video", 404, "Video not found or access denied")
             /\ UNCHANGED <<videos, files, deleted>>

\* VideoManager.delete_video
delete_video(v, u) ==
    LET vids == load_videos
    IN  IF v \in DOMAIN vids /\ vids[v].user_id = u
        THEN /\ files' = files \ {vids[v][k] : k \in PathKeys}
             /\ videos' = save_videos(Del(vids, v))
             /\ deleted' = deleted \cup {v}
             /\ ret' = Response("delete_video", 200, "Video deleted successfully")
        ELSE /\ ret' = Response("delete_video", 404, "Video not found or access denied")
             /\ UNCHANGED <<videos, files, deleted>>

\* DELETE /api/videos/{video_id}
DeleteVideo(v, u) ==
    /\ delete_video(v, u)
    /\ UNCHANGED <<pc, snap, stepSnap, nextId, subVars, autoVars, threadVars, intentArgs>>

\* ------------------------------------------------------------------------
\* subscription_manager.py: subscriptions
\* ------------------------------------------------------------------------
\* the record create_free_subscription stores: a 14-day trial of the Free tier
FreeSubscription ==
    [tier |-> "Free", status |-> "trial", start_date |-> now,
     end_date |-> now + TrialDays, billing_cycle |-> "monthly",
     auto_renew |-> TRUE, trial_ends |-> now + TrialDays]

create_free_subscription(u) == Put(subscriptions, u, FreeSubscription)

\* a create_billing_record that always charged the monthly price
BillingRecord_Monthly(tier, cycle) ==
    [amount |-> Tiers[tier].price_monthly, status |-> "paid"]

\* amount and status of the record create_billing_record appends
BillingRecord(tier, cycle) ==
    [amount |-> IF cycle = "yearly" THEN Tiers[tier].price_yearly
                ELSE Tiers[tier].price_monthly,
     status |-> "paid"]

BillingOf(u) == IF u \in DOMAIN billing THEN billing[u] ELSE <<>>

\* the billing store after create_billing_record(user_id, tier, billing_cycle)
create_billing_record(u, tier, cycle) ==
    Put(billing, u, Append(BillingOf(u), BillingRecord(tier, cycle)))

\* timedelta(days=365) for yearly, timedelta(days=30) for anything else
\* a cycle length that took every cycle for a monthly one
CycleDays_Monthly(cycle) == MonthlyDays

CycleDays(cycle) == IF cycle = "yearly" THEN YearlyDays ELSE MonthlyDays

\* SubscriptionManager.upgrade_subscription
upgrade_subscription(u, tier, cycle) ==
    IF tier \notin DOMAIN Tiers
    THEN /\ ret' = Response("upgrade_subscription", 400, "Invalid subscription tier")
         /\ UNCHANGED <<subscriptions, billing>>
    ELSE /\ Len(BillingOf(u)) < MaxBilling
         /\ subscriptions' = Put(subscriptions, u,
                [tier |-> tier, status |-> "active", start_date |-> now,
                 end_date |-> now + CycleDays(cycle), billing_cycle |-> cycle,
                 auto_renew |-> TRUE, trial_ends |-> NoDate])
         /\ billing' = create_billing_record(u, tier, cycle)
         /\ ret' = Response("upgrade_subscription", 200, tier)

\* SubscriptionManager.cancel_subscription
cancel_subscription(u) ==
    IF u \notin DOMAIN subscriptions
    THEN /\ ret' = Response("cancel_subscription", 404, "Subscription not found")
         /\ UNCHANGED subscriptions
    ELSE /\ subscriptions' = [subscriptions EXCEPT ![u].status = "cancelled",
                                                   ![u].auto_renew = FALSE]
         /\ ret' = Response("cancel_subscription", 200, "cancelled")

\* the renewal test of check_subscription_status, had it forgotten the status
RenewalDue_AnyStatus(sub) == now > sub.end_date

\* check_subscription_status: elif subscription.status == "active" and now > end_date
RenewalDue(sub) == sub.status = "active" /\ now > sub.end_date

\* a trial expiry that forgot to set the status
ExpireTrial_StillTrial(sub) ==
    [sub EXCEPT !.tier = "Free", !.end_date = now + MonthlyDays]

\* check_subscription_status: the record stored when the trial has expired
ExpireTrial(sub) ==
    [sub EXCEPT !.status = "expired", !.tier = "Free", !.end_date = now + MonthlyDays]

\* SubscriptionManager.check_subscription_status
check_subscription_status(u) ==
    IF u \notin DOMAIN subscriptions
    THEN /\ ret' = Response("check_subscription_status", 200, "no_subscription")
         /\ UNCHANGED <<subscriptions, billing>>
    ELSE LET sub == subscriptions[u]
         IN  IF sub.status = "trial" /\ sub.trial_ends # NoDate
             THEN IF now > sub.trial_ends
                  THEN \* trial expired, downgrade to free
                       /\ subscriptions' = Put(subscriptions, u, ExpireTrial(sub))
                       /\ ret' = Response("check_subscription_status", 200,
                                          ExpireTrial(sub).status)
                       /\ UNCHANGED billing
                  ELSE /\ ret' = Response("check_subscription_status", 200, sub.status)
                       /\ UNCHANGED <<subscriptions, billing>>
             ELSE IF RenewalDue(sub)
             THEN IF sub.auto_renew
                  THEN \* auto-renew: one cycle from the old end date, and a billing record
                       /\ Len(BillingOf(u)) < MaxBilling
                       /\ subscriptions' = Put(subscriptions, u,
                              [sub EXCEPT !.end_date = sub.end_date + CycleDays(sub.billing_cycle)])
                       /\ billing' = create_billing_record(u, sub.tier, sub.billing_cycle)
                       /\ ret' = Response("check_subscription_status", 200, sub.status)
                  ELSE /\ subscriptions' = Put(subscriptions, u, [sub EXCEPT !.status = "expired"])
                       /\ ret' = Response("check_subscription_status", 200, "expired")
                       /\ UNCHANGED billing
             ELSE /\ ret' = Response("check_subscription_status", 200, sub.status)
                  /\ UNCHANGED <<subscriptions, billing>>

\* GET /api/subscription: a user without a subscription gets a free one
get_user_subscription(u) ==
    /\ subscriptions' = IF u \in DOMAIN subscriptions THEN subscriptions
                        ELSE create_free_subscription(u)
    /\ ret' = Response("get_user_subscription", 200,
                       IF u \in DOMAIN subscriptions THEN subscriptions[u].tier ELSE "Free")

\* ------------------------------------------------------------------------
\* auth.py
\* ------------------------------------------------------------------------
\* hash_password: the SHA-256 digest of the password (no salt)
hash_password(password) == <<"sha256", password>>

\* the record signup_user stores
NewUser(email, password) ==
    [email |-> email, password_hash |-> hash_password(password),
     subscription_tier |-> "Free", is_active |-> TRUE]

\* a signup_user that did not look for the email
EmailRegistered_Unchecked(email) == FALSE

\* signup_user: for user in users.values(): if user["email"] == user_data.email
EmailRegistered(email) == \E id \in DOMAIN users : users[id].email = email

\* signup_user, with uid the id generate_user_id returns
signup_user(uid, email, password) ==
    IF EmailRegistered(email)
    THEN /\ ret' = Response("signup_user", 400, "Email already registered")
         /\ UNCHANGED <<users, subscriptions>>
    ELSE /\ users' = Put(users, uid, NewUser(email, password))
         /\ subscriptions' = create_free_subscription(uid)
         /\ ret' = Response("signup_user", 200, "User registered successfully")

\* verify_password
verify_password(password, hashed) == hash_password(password) = hashed

\* login_user: the first stored user with the email, None when there is none
FindUser(email) ==
    IF EmailRegistered(email)
    THEN CHOOSE id \in DOMAIN users : users[id].email = email
    ELSE None

\* a login_user that told an unknown email apart
UnknownEmail_Revealing == Response("login_user", 404, "User not found")

\* login_user: if not user: raise HTTPException(401, ...)
UnknownEmail == Response("login_user", 401, "Invalid email or password")

\* a login_user that looked the tier up in the subscriptions store
ProfileTier_FromSubscription(id) ==
    IF id \in DOMAIN subscriptions THEN subscriptions[id].tier ELSE "Free"

\* login_user: "subscription_tier": user["subscription_tier"]
ProfileTier(id) == users[id].subscription_tier

\* login_user; the access token is its claim {"sub": user_id}
login_user(email, password) ==
    LET id == FindUser(email)
    IN  IF id = None
        THEN ret' = UnknownEmail
        ELSE IF ~verify_password(password, users[id].password_hash)
        THEN ret' = Response("login_user", 401, "Invalid email or password")
        ELSE IF ~users[id].is_active
        THEN ret' = Response("login_user", 401, "Account is deactivated")
        ELSE ret' = Response("login_user", 200,
                             [access_token |-> [sub |-> id],
                              subscription_tier |-> ProfileTier(id)])

\* ------------------------------------------------------------------------
\* ai_brain.py: analyze_intent.  A message is the sequence of its characters.
\* ------------------------------------------------------------------------
\* str.lower() on one character
LowerChar(c) ==
    CASE c = "A" -> "a"
      [] c = "B" -> "b"
      [] c = "C" -> "c"
      [] c = "D" -> "d"
      [] c = "E" -> "e"
      [] c = "F" -> "f"
      [] c = "G" -> "g"
      [] c = "H" -> "h"
      [] c = "I" -> "i"
      [] c = "J" -> "j"
      [] c = "K" -> "k"
      [] c = "L" -> "l"
      [] c = "M" -> "m"
      [] c = "N" -> "n"
      [] c = "O" -> "o"
      [] c = "P" -> "p"
      [] c = "Q" -> "q"
      [] c = "R" -> "r"
      [] c = "S" -> "s"
      [] c = "T" -> "t"
      [] c = "U" -> "u"
      [] c = "V" -> "v"
      [] c = "W" -> "w"
      [] c = "X" -> "x"
      [] c = "Y" -> "y"
      [] c = "Z" -> "z"
      [] OTHER -> c

\* message.lower()
lower(message) == [i \in 1..Len(message) |-> LowerChar(message[i])]

\* word in message_lower: substring test
Contains(message, word) ==
    \E i \in 0..(Len(message) - Len(word)) : SubSeq(message, i + 1, i + Len(word)) = word

\* the keyword groups with the first two in the other order
KeywordGroups_Reordered ==
    <<[intent |-> "modify_script", confidence |-> 7, suggested_actions |-> <<"show_current_script">>,
     words |-> <<<<"s", "c", "r", "i", "p", "t">>,
                 <<"m", "o", "d", "i", "f", "y">>,
                 <<"c", "h", "a", "n", "g", "e">>,
                 <<"e", "d", "i", "t">>>>],
    [intent |-> "create_video", confidence |-> 8, suggested_actions |-> <<"ask_for_topic">>,
     words |-> <<<<"c", "r", "e", "a", "t", "e">>,
                 <<"m", "a", "k", "e">>,
                 <<"g", "e", "n", "e", "r", "a", "t", "e">>,
                 <<"n", "e", "w", " ", "v", "i", "d", "e", "o">>>>],
    [intent |-> "get_status", confidence |-> 9, suggested_actions |-> <<"show_status">>,
     words |-> <<<<"s", "t", "a", "t", "u", "s">>,
                 <<"p", "r", "o", "g", "r", "e", "s", "s">>,
                 <<"h", "o", "w">>>>],
    [intent |-> "upload_video", confidence |-> 8, suggested_actions |-> <<"check_ready_to_upload">>,
     words |-> <<<<"u", "p", "l", "o", "a", "d">>,
                 <<"y", "o", "u", "t", "u", "b", "e">>,
                 <<"p", "u", "b", "l", "i", "s", "h">>>>]>>

\* the if/elif chain of the fallback, in its order; confidence in tenths
KeywordGroups ==
    <<[intent |-> "create_video", confidence |-> 8, suggested_actions |-> <<"ask_for_topic">>,
     words |-> <<<<"c", "r", "e", "a", "t", "e">>,
                 <<"m", "a", "k", "e">>,
                 <<"g", "e", "n", "e", "r", "a", "t", "e">>,
                 <<"n", "e", "w", " ", "v", "i", "d", "e", "o">>>>],
    [intent |-> "modify_script", confidence |-> 7, suggested_actions |-> <<"show_current_script">>,
     words |-> <<<<"s", "c", "r", "i", "p", "t">>,
                 <<"m", "o", "d", "i", "f", "y">>,
                 <<"c", "h", "a", "n", "g", "e">>,
                 <<"e", "d", "i", "t">>>>],
    [intent |-> "get_status", confidence |-> 9, suggested_actions |-> <<"show_status">>,
     words |-> <<<<"s", "t", "a", "t", "u", "s">>,
                 <<"p", "r", "o", "g", "r", "e", "s", "s">>,
                 <<"h", "o", "w">>>>],
    [intent |-> "upload_video", confidence |-> 8, suggested_actions |-> <<"check_ready_to_upload">>,
     words |-> <<<<"u", "p", "l", "o", "a", "d">>,
                 <<"y", "o", "u", "t", "u", "b", "e">>,
                 <<"p", "u", "b", "l", "i", "s", "h">>>>]>>

\* any(word in message_lower for word in [...]) for group g
GroupMatches(g, message_lower) ==
    \E k \in 1..Len(g.words) : Contains(message_lower, g.words[k])

\* the dict a branch of the fallback returns
IntentResult(intent, confidence, action) ==
    [intent |-> intent, confidence |-> confidence, parameters |-> EmptyDict,
     suggested_actions |-> <<action>>]

\* the fallback intent analysis of analyze_intent
FallbackIntent(message) ==
    LET message_lower == lower(message)
        hits == {i \in 1..Len(KeywordGroups) : GroupMatches(KeywordGroups[i], message_lower)}
    IN  IF hits = {}
        THEN IntentResult("general_chat", 5, "provide_help")
        ELSE LET g == KeywordGroups[CHOOSE i \in hits : \A j \in hits : i <= j]
             IN  IntentResult(g.intent, g.confidence, g.suggested_actions[1])

JSONDecodeError == "JSONDecodeError"

\* json.loads returned value
Loaded(value) == [raises |-> "", value |-> value]

\* json.loads raised exc
Raised(exc) == [raises |-> exc, value |-> <<>>]

\* json.loads on the texts an LLM is seen to answer with
json_loads(text) ==
    CASE text = "{\"intent\": \"get_status\", \"confidence\": 0.9}" ->
            Loaded([intent |-> "get_status", confidence |-> 9])
      [] text = "{\"intent\": \"help\"}" -> Loaded([intent |-> "help"])
      [] text = "[]" -> Loaded(<<>>)
      [] OTHER -> Raised(JSONDecodeError)

\* what send_to_openrouter does: raise, return None, or return a text
LlmOutcomes ==
    {[kind |-> "raise", text |-> ""], [kind |-> "none", text |-> ""]}
    \cup {[kind |-> "text", text |-> t] :
            t \in {"", " ", "Sure! The intent is create_video.",
                   "Here is the JSON: {\"intent\": \"help\"}",
                   "{intent: upload_video}",
                   "{\"intent\": \"get_status\", \"confidence\": 0.9}",
                   "{\"intent\": \"help\"}", "[]"}}

\* the try block of analyze_intent returns json.loads(response)
LlmAnswered(llm) ==
    /\ llm.kind = "text"
    /\ llm.text # ""
    /\ json_loads(llm.text).raises = ""

\* AIBrain.analyze_intent
analyze_intent(message, llm) ==
    IF LlmAnswered(llm) THEN json_loads(llm.text).value ELSE FallbackIntent(message)

\* no call of analyze_intent yet
NoIntentArgs == [message |-> <<>>, llm |-> [kind |-> "none", text |-> ""]]

\* ------------------------------------------------------------------------
\* automation_manager.py: settings and _calculate_next_upload
\* ------------------------------------------------------------------------
AutoUsers == {"u1"}

days_of_week == <<"monday", "tuesday", "wednesday", "thursday", "friday",
                  "saturday", "sunday">>

DayNames == {days_of_week[i] : i \in 1..7}

\* days_of_week.index(day), counted from 0
DayIndex(day) == (CHOOSE i \in 1..7 : days_of_week[i] = day) - 1

\* now.strftime("%A").lower(); day 0 of the clock is a Monday
CurrentDay(c) == days_of_week[(c.day % 7) + 1]

\* a point in time: a day number and a minute of that day
Moment(day, time) == [day |-> day, time |-> time]

\* None where a point in time is expected
NoMoment == Moment(-1, -1)

\* a <= b on points in time
MomentLE(a, b) == a.day < b.day \/ (a.day = b.day /\ a.time <= b.time)

\* an "HH:MM" string is the tuple of its four digits;
\* datetime.strptime(t, "%H:%M").time() is the minute of the day
ParseTime(t) == (t[1] * 10 + t[2]) * 60 + t[3] * 10 + t[4]

\* the default "09:00" of settings.get("upload_time", "09:00")
DefaultTime == <<0, 9, 0, 0>>

\* dict.get(k, default)
Get(d, k, default) == IF k \in DOMAIN d THEN d[k] ELSE default

\* the for loop of _calculate_next_upload: the position in upload_days where it
\* stops, either at the first day later in the week than today or at a name
\* days_of_week.index rejects; 0 when it runs to the end
ScanStop(upload_days, cur) ==
    LET stops == {i \in 1..Len(upload_days) :
                    \/ upload_days[i] \notin DayNames
                    \/ DayIndex(upload_days[i]) > cur}
    IN  IF stops = {} THEN 0 ELSE CHOOSE i \in stops : \A j \in stops : i <= j

\* AutomationManager._calculate_next_upload, at clock c
calculate_next_upload(s, c) ==
    LET upload_days == Get(s, "upload_days", <<>>)
        upload_time == Get(s, "upload_time", DefaultTime)
        cur == DayIndex(CurrentDay(c))
        k == ScanStop(upload_days, cur)
    IN  IF upload_days = <<>> THEN NoMoment
        ELSE IF k # 0 /\ upload_days[k] \notin DayNames THEN NoMoment
        ELSE LET next_upload_day == IF k # 0 THEN upload_days[k] ELSE upload_days[1]
                 d0 == (DayIndex(next_upload_day) - cur) % 7
                 days_ahead == IF d0 = 0 /\ c.time >= ParseTime(upload_time) THEN 7 ELSE d0
             IN  Moment(c.day + days_ahead, ParseTime(upload_time))

\* the default of AutomationManager.get_user_settings
DefaultSettings ==
    [enabled |-> FALSE, niche |-> "", frequency |-> "weekly", upload_days |-> <<>>,
     upload_time |-> DefaultTime, last_upload |-> NoMoment, next_upload |-> NoMoment]

\* AutomationManager.get_user_settings
get_user_settings(u) == IF u \in DOMAIN settings THEN settings[u] ELSE DefaultSettings

\* AutomationManager.get_next_upload
get_next_upload(u) ==
    IF u \notin DOMAIN settings THEN NoMoment
    ELSE IF ~settings[u].enabled THEN NoMoment
    ELSE settings[u].next_upload

\* ------------------------------------------------------------------------
\* automation_manager.py: jobs of the schedule library
\* ------------------------------------------------------------------------
\* schedule.Scheduler.clear(tag): drop the jobs that carry the tag
Clear(js, tag) == SelectSeq(js, LAMBDA j : j.tag # tag)

\* days from today to the next start_day, 1..7 (schedule.Job._schedule_next_run)
DaysAhead(day, c) ==
    LET d == DayIndex(day) - DayIndex(CurrentDay(c))
    IN  IF d <= 0 THEN d + 7 ELSE d

\* schedule.every().<day>.at(t).do(f, u) followed by job.tag(u): the new job;
\* its first run is today when today is the day and t has not passed
NewJob(u, day, t, c) ==
    LET today == DaysAhead(day, c) = 7 /\ ParseTime(t) >= c.time
    IN  [tag |-> u, start_day |-> day, at_time |-> ParseTime(t),
         next_run |-> Moment(IF today THEN c.day ELSE c.day + DaysAhead(day, c),
                             ParseTime(t))]

\* the next run of a job that has just run at clock c
NextRun(job, c) ==
    LET today == DaysAhead(job.start_day, c) = 7 /\ job.at_time > c.time
    IN  Moment(IF today THEN c.day ELSE c.day + DaysAhead(job.start_day, c),
               job.at_time)

\* the jobs _schedule_user_job registers, one for each valid upload day
JobsFor(u, st, c) ==
    LET upload_days == SelectSeq(st[u].upload_days, LAMBDA d : d \in DayNames)
    IN  [i \in 1..Len(upload_days) |-> NewJob(u, upload_days[i], st[u].upload_time, c)]

\* AutomationManager._schedule_user_job with self.settings = st: it clears the
\* tag in self.scheduler and registers through the module-level schedule.every()
schedule_user_job(u, st) ==
    IF u \notin DOMAIN st \/ ~st[u].enabled
    THEN UNCHANGED <<jobs, ownJobs>>
    ELSE /\ ownJobs' = Clear(ownJobs, u)
         /\ jobs' = jobs \o JobsFor(u, st, clock)

\* the jobs a call of _schedule_user_job would add
WouldAdd(u, st) ==
    IF u \notin DOMAIN st \/ ~st[u].enabled THEN 0 ELSE Len(JobsFor(u, st, clock))

\* AutomationManager.save_user_settings
save_user_settings(u, s) ==
    IF Get(s, "niche", "") = "" \/ Get(s, "upload_days", <<>>) = <<>>
    THEN /\ ret' = Response("save_user_settings", 500, "Failed to save automation settings")
         /\ UNCHANGED <<settings, jobs, ownJobs>>
    ELSE LET st == Put(settings, u,
                       [enabled |-> Get(s, "enabled", TRUE),
                        niche |-> s.niche,
                        frequency |-> Get(s, "frequency", "weekly"),
                        upload_days |-> s.upload_days,
                        upload_time |-> Get(s, "upload_time", DefaultTime),
                        last_upload |-> NoMoment,
                        next_upload |-> calculate_next_upload(s, clock)])
         IN  /\ settings' = st
             /\ IF Get(s, "enabled", FALSE)
                THEN /\ Len(jobs) + WouldAdd(u, st) <= MaxJobs
                     /\ schedule_user_job(u, st)
                ELSE UNCHANGED <<jobs, ownJobs>>
             /\ ret' = Response("save_user_settings", 200, None)

\* AutomationManager.set_enabled
set_enabled(u, enabled) ==
    LET current == get_user_settings(u)
    IN  IF enabled /\ (current.niche = "" \/ current.upload_days = <<>>)
        THEN /\ ret' = Response("set_enabled", 400,
                                "Please configure niche, days and time before enabling automation")
             /\ UNCHANGED <<settings, jobs, ownJobs>>
        ELSE IF ~enabled
        THEN /\ settings' = Put(settings, u,
                                [current EXCEPT !.enabled = FALSE, !.next_upload = NoMoment])
             /\ ownJobs' = Clear(ownJobs, u)
             /\ UNCHANGED jobs
             /\ ret' = Response("set_enabled", 200, None)
        ELSE LET e == [current EXCEPT !.enabled = TRUE]
                 st == Put(settings, u,
                           [e EXCEPT !.next_upload = calculate_next_upload(e, clock)])
             IN  /\ settings' = st
                 /\ Len(jobs) + WouldAdd(u, st) <= MaxJobs
                 /\ schedule_user_job(u, st)
                 /\ ret' = Response("set_enabled", 200, None)

\* AutomationManager._create_automated_video; ok is whether the import of the
\* generator and create_video_project succeeded
create_automated_video(u, ok) ==
    IF u \notin DOMAIN settings \/ ~ok
    THEN UNCHANGED <<settings, prepared>>
    ELSE /\ prepared[u] < MaxPrepared
         /\ prepared' = [prepared EXCEPT ![u] = @ + 1]
         /\ settings' = [settings EXCEPT
                ![u].last_upload = clock,
                ![u].next_upload = calculate_next_upload(settings[u], clock)]

\* job i is the one schedule.run_pending runs first: due, and earliest of the
\* due jobs (sorted() keeps the list order among equals)
FirstDue(i) ==
    /\ MomentLE(jobs[i].next_run, clock)
    /\ \A j \in 1..Len(jobs) : MomentLE(jobs[j].next_run, clock) =>
          \/ j = i
          \/ ~MomentLE(jobs[j].next_run, jobs[i].next_run)
          \/ (jobs[j].next_run = jobs[i].next_run /\ i < j)

\* one job run of schedule.run_pending() in the scheduler thread
RunPending(ok) ==
    /\ running
    /\ \E i \in 1..Len(jobs) :
          /\ FirstDue(i)
          /\ create_automated_video(jobs[i].tag, ok)
          /\ jobs' = [jobs EXCEPT ![i].next_run = NextRun(jobs[i], clock)]
    /\ ret' = NoResponse
    /\ UNCHANGED <<ownJobs, running, clock, settingsArg, videoVars, subVars, threadVars, intentArgs>>

\* AutomationManager.start_scheduler
start_scheduler ==
    /\ ~running
    /\ running' = TRUE
    /\ ret' = NoResponse
    /\ UNCHANGED <<settings, jobs, ownJobs, clock, prepared, settingsArg, videoVars, subVars, threadVars, intentArgs>>

\* the minutes of the day at which the clock is looked at
Slots == {8 * 60, 9 * 60, 19 * 60}

\* time passes to the next slot, of today or of tomorrow
AutoTick ==
    /\ LET later == {t \in Slots : t > clock.time}
       IN  IF later # {}
           THEN clock' = Moment(clock.day, CHOOSE t \in later : \A x \in later : t <= x)
           ELSE /\ clock.day < MaxDay
                /\ clock' = Moment(clock.day + 1, CHOOSE t \in Slots : \A x \in Slots : t <= x)
    /\ ret' = NoResponse
    /\ UNCHANGED <<settings, jobs, ownJobs, running, prepared, settingsArg, videoVars, subVars, threadVars, intentArgs>>

\* the state of a fresh AutomationManager, Monday 08:00
InitAutoStore ==
    /\ settings = EmptyDict
    /\ jobs = <<>>
    /\ ownJobs = <<>>
    /\ running = FALSE
    /\ clock = Moment(0, 8 * 60)
    /\ prepared = [u \in AutoUsers |-> 0]
    /\ settingsArg = [upload_days |-> <<>>]

\* ------------------------------------------------------------------------
\* video_routes.py and automation_manager.py: the threads that read and write
\* user_data/<user_id>/videos.json.  The request handler, each background
\* worker and the scheduler thread read the whole list in one step and write
\* the whole list back in a later one; a single read or write is one step.
\* ------------------------------------------------------------------------
\* what the threads on videos.json leave alone
ThreadFrame == UNCHANGED <<settings, jobs, ownJobs, running, clock, settingsArg,
                           videoVars, subVars, intentArgs>>

\* a thread that holds no list
Idle == [busy |-> FALSE, local |-> <<>>, id |-> 0]

\* a thread that has read the list and is about to write record id
Holding(local, id) == [busy |-> TRUE, local |-> local, id |-> id]

\* the ids of the records in a list
IdsOf(list) == {list[i].id : i \in 1..Len(list)}

\* create_video_with_ai: video_data
GeneratingRecord(id) == [id |-> id, status |-> "generating", file_path |-> <<id, "mp4">>]

\* _create_automated_video: prepared_record
PreparedRecord(id) == [id |-> id, status |-> "prepared", file_path |-> <<id, "mp4">>]

\* the final updates _run_generation_background hands to _update_user_video
Outcomes == {"completed", "placeholder", "failed"}

\* v.update(updates) for the three final updates
UpdatedRecord(v, outcome) ==
    IF outcome = "completed" THEN [v EXCEPT !.status = "completed", !.file_path = <<v.id, "mp4">>]
    ELSE IF outcome = "placeholder" THEN [v EXCEPT !.status = "placeholder", !.file_path = <<v.id, "txt">>]
    ELSE [v EXCEPT !.status = "failed"]

\* _update_user_video: the loop over the list it has read
UpdatedList(list, id, outcome) ==
    [i \in 1..Len(list) |-> IF list[i].id = id THEN UpdatedRecord(list[i], outcome) ELSE list[i]]

\* create_video_with_ai up to json.load: a fresh uuid, and the list is read
RequestRead ==
    /\ ~threads.req.busy
    /\ Cardinality(DOMAIN threads.workers) < MaxUserVideos
    /\ threads' = [threads EXCEPT !.req = Holding(userVideos, threads.fresh),
                                  !.fresh = @ + 1]
    /\ ret' = NoResponse
    /\ UNCHANGED <<userVideos, prepared>>
    /\ ThreadFrame

\* create_video_with_ai from videos.append on: the list is written and the
\* background worker thread is started
RequestWrite ==
    /\ threads.req.busy
    /\ userVideos' = Append(threads.req.local, GeneratingRecord(threads.req.id))
    /\ threads' = [threads EXCEPT
            !.req = Idle,
            !.workers = Put(@, threads.req.id, [pc |-> "run", local |-> <<>>, outcome |-> None])]
    /\ ret' = Response("create_video_with_ai", 200, "generating")
    /\ UNCHANGED prepared
    /\ ThreadFrame

\* a worker ends its generation with one of the outcomes and
\* _update_user_video reads the list
WorkerRead(id, outcome) ==
    /\ id \in DOMAIN threads.workers
    /\ threads.workers[id].pc = "run"
    /\ threads' = [threads EXCEPT
            !.workers[id] = [pc |-> "read", local |-> userVideos, outcome |-> outcome]]
    /\ ret' = NoResponse
    /\ UNCHANGED <<userVideos, prepared>>
    /\ ThreadFrame

\* _update_user_video writes the list back when it found the record
WorkerWrite(id) ==
    /\ id \in DOMAIN threads.workers
    /\ threads.workers[id].pc = "read"
    /\ LET w == threads.workers[id]
       IN  /\ userVideos' = IF id \in IdsOf(w.local)
                            THEN UpdatedList(w.local, id, w.outcome)
                            ELSE userVideos
           /\ threads' = [threads EXCEPT
                   !.workers[id] = [pc |-> "done", local |-> <<>>, outcome |-> w.outcome]]
    /\ ret' = NoResponse
    /\ UNCHANGED prepared
    /\ ThreadFrame

\* _create_automated_video in the scheduler thread, after a successful
\* generation: a fresh uuid, and the list is read
AutoRead ==
    /\ ~threads.auto.busy
    /\ prepared["u1"] < MaxPrepared
    /\ threads' = [threads EXCEPT !.auto = Holding(userVideos, threads.fresh),
                                  !.fresh = @ + 1]
    /\ ret' = NoResponse
    /\ UNCHANGED <<userVideos, prepared>>
    /\ ThreadFrame

\* _create_automated_video: the prepared record is appended and the list written
AutoWrite ==
    /\ threads.auto.busy
    /\ userVideos' = Append(threads.auto.local, PreparedRecord(threads.auto.id))
    /\ prepared' = [prepared EXCEPT !["u1"] = @ + 1]
    /\ threads' = [threads EXCEPT !.auto = Idle]
    /\ ret' = NoResponse
    /\ ThreadFrame

\* no record, no thread at work
InitThreadStore ==
    /\ userVideos = <<>>
    /\ threads = [req |-> Idle, auto |-> Idle, workers |-> EmptyDict, fresh |-> 1]

\* ------------------------------------------------------------------------
\* SpecVideo: the video store and its process_video tasks.  Both users have
\* signed up (a Free trial each); nothing else has happened yet.
\* ------------------------------------------------------------------------
InitVideoStore ==
    /\ videos = EmptyDict
    /\ files = {}
    /\ pc = [v \in VideoIds |-> "none"]
    /\ snap = [v \in VideoIds |-> EmptyDict]
    /\ stepSnap = [v \in VideoIds |-> EmptyDict]
    /\ nextId = 1
    /\ deleted = {}

\* the e-mail address user u signed up with
EmailOf(u) == <<u, "@example.com">>

InitVideo ==
    /\ InitVideoStore
    /\ InitThreadStore
    /\ intentArgs = NoIntentArgs
    /\ InitAutoStore
    /\ now = 0
    /\ users = [u \in Users |-> NewUser(EmailOf(u), "pw")]
    /\ subscriptions = [u \in Users |-> FreeSubscription]
    /\ billing = EmptyDict
    /\ usage = EmptyDict
    /\ ret = NoResponse

NextVideo ==
    \/ \E u \in Users : create_video(u, MaxVideos)
    \/ \E v \in VideoIds : ProcessStart(v)
    \/ \E v \in VideoIds : ProcessStep(v)
    \/ \E v \in VideoIds : ProcessFail(v)
    \/ \E v \in 1..nextId, u \in Users : DeleteVideo(v, u)

SpecVideo == InitVideo /\ [][NextVideo]_vars


\* ------------------------------------------------------------------------
\* Claims about the video store (SpecVideo)
\* ------------------------------------------------------------------------

\* the step is task a finishing a pipeline step (and saving twice)
TaskSaved(a) == pc[a] \in StepNames /\ pc'[a] = PcAfter(pc[a])

\* C1: concurrent writers clobber each other.  Every save a process_video task
\* makes writes, for every OTHER video, what the task's snapshot from its start
\* held: the record as it was then, or no record when there was none, whatever
\* has been persisted for that video since.  (The reachable lost update is
\* C1_LostUpdate.)
C1_WholeFileFromSnapshot ==
    [][\A a \in VideoIds : TaskSaved(a) =>
          \A b \in VideoIds \ {a} :
              IF b \in DOMAIN snap[a]
              THEN b \in DOMAIN videos' /\ videos'[b] = snap[a][b]
              ELSE b \notin DOMAIN videos']_vars

\* C1, the case: B's task has persisted a progress (the one in its own dict) and
\* is still running, B was never deleted, and the file now holds for B the older
\* record of A's snapshot, with a lower progress
C1_LostUpdate ==
    \E a, b \in VideoIds :
        /\ a # b
        /\ pc[a] \in StepNames \ {"script"}
        /\ pc[b] \in StepNames
        /\ b \notin deleted
        /\ b \in DOMAIN videos
        /\ b \in DOMAIN snap[a]
        /\ videos[b] = snap[a][b]
        /\ videos[b].progress < snap[b][b].progress

\* C3: delete_video(v, u) removes exactly the record v when u owns it and answers
\* True; otherwise it answers False (the route's 404) and leaves the store as it is
C3_DeleteOnlyOwn ==
    [][\A v \in VideoIds, u \in Users : DeleteVideo(v, u) =>
          IF v \in DOMAIN videos /\ videos[v].user_id = u
          THEN /\ ret'.status = 200
               /\ DOMAIN videos' = (DOMAIN videos) \ {v}
               /\ \A w \in DOMAIN videos' : videos'[w] = videos[w]
          ELSE /\ ret'.status = 404
               /\ videos' = videos]_vars

\* C3, the case: a delete has just been refused although videos of both users
\* are stored, after another delete had succeeded
C3_Refused ==
    /\ ret.op = "delete_video"
    /\ ret.status = 404
    /\ deleted # {}
    /\ \A u \in Users : \E v \in DOMAIN videos : videos[v].user_id = u

\* video 1 is the only video ever created, and it was never deleted
Alone == nextId <= 2 /\ deleted = {}

ProgressValues == <<0, 10, 30, 50, 80, 95, 100>>

StatusValues == <<"pending", "processing", "completed">>

PcValues == <<"start", "script", "audio", "video", "thumbnail", "finalize", "done">>

\* y is x or the value that follows x in seq
SameOrNext(seq, x, y) ==
    \/ x = y
    \/ \E i \in 1..(Len(seq) - 1) : seq[i] = x /\ seq[i + 1] = y

ProgressBefore(step) ==
    IF StepIndex(step) = 1 THEN 10 ELSE ProgressAfter(Steps[StepIndex(step) - 1])

TierInputs == {"Starter", "Enterprise", "Platinum"}

LimitTierInputs == {"Free", "Enterprise", "Platinum"}

CycleInputs == {"monthly", "yearly", "quarterly"}

\* the clock moves by a month or a year (SpecSub), by a trial or a month (SpecLimit)
SubTicks == {MonthlyDays, YearlyDays}

LimitTicks == {TrialDays, MonthlyDays}

SubUsers == {"u1"}

InitSub ==
    /\ InitVideoStore
    /\ InitThreadStore
    /\ intentArgs = NoIntentArgs
    /\ InitAutoStore
    /\ now = 0
    /\ users = EmptyDict
    /\ subscriptions = EmptyDict
    /\ billing = EmptyDict
    /\ usage = EmptyDict
    /\ ret = NoResponse

CreateVideo(u) ==
    create_video(u, MaxRequests)

GetSubscription(u) ==
    /\ get_user_subscription(u)
    /\ UNCHANGED <<autoVars, threadVars, intentArgs, videoVars, users, billing, usage, now>>

Upgrade(u, tier, cycle) ==
    /\ upgrade_subscription(u, tier, cycle)
    /\ UNCHANGED <<autoVars, threadVars, intentArgs, videoVars, users, usage, now>>

Cancel(u) ==
    /\ cancel_subscription(u)
    /\ UNCHANGED <<autoVars, threadVars, intentArgs, videoVars, users, billing, usage, now>>

CheckStatus(u) ==
    /\ check_subscription_status(u)
    /\ UNCHANGED <<autoVars, threadVars, intentArgs, videoVars, users, usage, now>>

Tick(d, cap) ==
    /\ now + d <= cap
    /\ now' = now + d
    /\ ret' = NoResponse
    /\ UNCHANGED <<autoVars, threadVars, intentArgs, videoVars, users, subscriptions, billing, usage>>

NextSub ==
    \/ \E u \in SubUsers : GetSubscription(u)
    \/ \E u \in SubUsers, t \in TierInputs, c \in CycleInputs : Upgrade(u, t, c)
    \/ \E u \in SubUsers : Cancel(u)
    \/ \E u \in SubUsers : CheckStatus(u)
    \/ \E d \in SubTicks : Tick(d, MaxNow)

SpecSub == InitSub /\ [][NextSub]_vars

\* ------------------------------------------------------------------------
\* SpecLimit: the create_video route against the subscription and the month's
\* usage, with tier changes and the month turning.  The process_video tasks
\* that create_video starts do not touch these stores and are left where they
\* start.
\* ------------------------------------------------------------------------
NextLimit ==
    \/ \E u \in SubUsers : GetSubscription(u)
    \/ \E u \in SubUsers, t \in LimitTierInputs : Upgrade(u, t, "monthly")
    \/ \E u \in SubUsers : CheckStatus(u)
    \/ \E u \in SubUsers : CreateVideo(u)
    \/ \E d \in LimitTicks : Tick(d, MaxUsageNow)

SpecLimit == InitSub /\ [][NextLimit]_vars


\* ------------------------------------------------------------------------
\* SpecAuth: signing up
\* ------------------------------------------------------------------------
UserIds == {"u1", "u2", "u3"}

Emails == {EmailOf(u) : u \in UserIds}

Passwords == {"pw", "pw2"}

Signup(uid, email, password) ==
    /\ uid \notin DOMAIN users
    /\ signup_user(uid, email, password)
    /\ UNCHANGED <<autoVars, threadVars, intentArgs, videoVars, billing, usage, now>>

NextAuth ==
    \E uid \in UserIds, e \in Emails, p \in Passwords : Signup(uid, e, p)

SpecAuth == InitSub /\ [][NextAuth]_vars


\* ------------------------------------------------------------------------
\* Claims about video limits (SpecLimit)
\* ------------------------------------------------------------------------
\* the calendar months the clock can show
Months == 0..(MaxUsageNow \div DaysPerMonth)

LimitOf(u) == Tiers[subscriptions[u].tier].video_limit

\* videos_created of u in the month the clock shows
CreatedThisMonth(u) == VideosCreated(u, MonthOf(now))

\* the tier of u was set before the current month began
TierFixedThisMonth(u) == MonthOf(subscriptions[u].start_date) < MonthOf(now)

\* C2: a create_video request of a user without subscription, or whose month's
\* videos_created has reached the finite limit of the tier, is answered 403 and
\* changes neither videos.json nor usage.json; every other request is answered
\* 200, adds one video record and adds exactly 1 to the month's videos_created,
\* which stays within the limit; nothing else changes videos_created; and while
\* the tier has been the same since before the month began, the month's
\* videos_created does not exceed its limit
C2_VideoLimit ==
    [][/\ \A u \in SubUsers, k \in Months :
            LET blocked == \/ u \notin DOMAIN subscriptions
                           \/ LimitOf(u) # -1 /\ VideosCreated(u, k) >= LimitOf(u)
            IN  /\ (CreateVideo(u) /\ k = MonthOf(now)) =>
                      IF blocked
                      THEN /\ ret'.status = 403
                           /\ videos' = videos
                           /\ usage' = usage
                           /\ pc' = pc
                      ELSE /\ ret'.status = 200
                           /\ DOMAIN videos' = (DOMAIN videos) \cup {nextId}
                           /\ nextId \notin DOMAIN videos
                           /\ VideosCreated(u, k)' = VideosCreated(u, k) + 1
                           /\ LimitOf(u) # -1 => VideosCreated(u, k)' <= LimitOf(u)
                           /\ \A j \in Months \ {k} : VideosCreated(u, j)' = VideosCreated(u, j)
                /\ VideosCreated(u, k)' # VideosCreated(u, k) =>
                      CreateVideo(u) /\ k = MonthOf(now)
       /\ \A u \in DOMAIN subscriptions' :
            (LimitOf(u)' # -1 /\ TierFixedThisMonth(u)') =>
                CreatedThisMonth(u)' <= LimitOf(u)']_vars

\* C2, the case: the fourth request of a month is refused on the Free tier, held
\* since before the month began, with three videos created in the month
C2_Refused ==
    \E u \in DOMAIN subscriptions :
        /\ ret.op = "create_video" /\ ret.status = 403
        /\ subscriptions[u].tier = "Free"
        /\ TierFixedThisMonth(u)
        /\ VideosCreated(u, MonthOf(now)) = 3
        /\ Cardinality(DOMAIN videos) = 3

\* ------------------------------------------------------------------------
\* Claims about signing up (SpecAuth)
\* ------------------------------------------------------------------------
\* C4: no two users share an e-mail address.  A signup with a registered
\* address is answered 400 "Email already registered" and changes neither
\* users.json nor subscriptions.json; any other signup adds exactly one user
\* record, with that address, and exactly one subscription, for the new user id,
\* on the Free tier with status trial
C4_UniqueEmail ==
    [][/\ \A a, b \in DOMAIN users' : users'[a].email = users'[b].email => a = b
       /\ \A uid \in UserIds, e \in Emails, p \in Passwords : Signup(uid, e, p) =>
            IF \E id \in DOMAIN users : users[id].email = e
            THEN /\ ret'.status = 400
                 /\ ret'.detail = "Email already registered"
                 /\ users' = users
                 /\ subscriptions' = subscriptions
            ELSE /\ ret'.status = 200
                 /\ DOMAIN users' = (DOMAIN users) \cup {uid}
                 /\ \A id \in DOMAIN users : users'[id] = users[id]
                 /\ users'[uid].email = e
                 /\ DOMAIN subscriptions' = (DOMAIN subscriptions) \cup {uid}
                 /\ \A id \in DOMAIN subscriptions : subscriptions'[id] = subscriptions[id]
                 /\ subscriptions'[uid].tier = "Free"
                 /\ subscriptions'[uid].status = "trial"]_vars

\* C4, the case: with two users registered, a signup was refused for its address
C4_Refused ==
    /\ ret.op = "signup_user"
    /\ ret.status = 400
    /\ Cardinality(DOMAIN users) = 2
    /\ DOMAIN subscriptions = DOMAIN users

\* ------------------------------------------------------------------------
\* Claims about subscriptions and billing (SpecSub)
\* ------------------------------------------------------------------------
\* C9: cancel_subscription of a user without subscription is answered 404 and
\* changes nothing; otherwise it sets status cancelled and auto_renew false and
\* leaves the tier and the dates.  A cancelled subscription and the user's
\* billing history then stay as they are, whatever the clock shows and whoever
\* calls check_subscription_status, until an upgrade_subscription succeeds
C9_CancelStops ==
    [][\A u \in SubUsers :
          /\ Cancel(u) =>
                IF u \notin DOMAIN subscriptions
                THEN /\ ret'.status = 404
                     /\ subscriptions' = subscriptions
                     /\ billing' = billing
                ELSE /\ ret'.status = 200
                     /\ subscriptions'[u].status = "cancelled"
                     /\ subscriptions'[u].auto_renew = FALSE
                     /\ subscriptions'[u].tier = subscriptions[u].tier
                     /\ subscriptions'[u].start_date = subscriptions[u].start_date
                     /\ subscriptions'[u].end_date = subscriptions[u].end_date
                     /\ subscriptions'[u].trial_ends = subscriptions[u].trial_ends
                     /\ subscriptions'[u].billing_cycle = subscriptions[u].billing_cycle
                     /\ billing' = billing
          /\ (u \in DOMAIN subscriptions /\ subscriptions[u].status = "cancelled") =>
                \/ /\ subscriptions'[u] = subscriptions[u]
                   /\ BillingOf(u)' = BillingOf(u)
                \/ ret'.op = "upgrade_subscription" /\ ret'.status = 200
          /\ (u \in DOMAIN subscriptions /\ subscriptions[u].status = "cancelled"
                /\ CheckStatus(u)) => ret'.detail = "cancelled"]_vars

\* C9, the case: an upgraded subscription was cancelled, the clock is more than
\* a cycle past its end date, and check_subscription_status has just answered
C9_CancelledPastEnd ==
    \E u \in DOMAIN subscriptions :
        /\ subscriptions[u].status = "cancelled"
        /\ subscriptions[u].tier # "Free"
        /\ ~subscriptions[u].auto_renew
        /\ now > subscriptions[u].end_date + CycleDays(subscriptions[u].billing_cycle)
        /\ ret.op = "check_subscription_status"
        /\ ret.detail = "cancelled"

\* the step renews u's subscription: its end date moves and it stays active
Renewed(u) ==
    /\ u \in DOMAIN subscriptions
    /\ ret'.op = "check_subscription_status"
    /\ subscriptions'[u].status = "active"
    /\ subscriptions'[u].end_date # subscriptions[u].end_date

\* the price the claim states for a tier and a billing cycle
PriceOf(tier, cycle) ==
    IF cycle = "yearly" THEN Tiers[tier].price_yearly ELSE Tiers[tier].price_monthly

\* C10: a successful upgrade_subscription appends exactly one record to the
\* user's billing history, and so does every auto-renewal; the record has status
\* paid and the amount is the tier's yearly price for the yearly cycle and its
\* monthly price for any other; no other step changes the billing store; and an
\* upgrade to an undefined tier is answered 400, appends nothing and leaves the
\* subscription as it is
C10_BillingRecords ==
    [][\A u \in SubUsers :
          /\ \A t \in TierInputs, c \in CycleInputs : Upgrade(u, t, c) =>
                IF t \in TierNames
                THEN /\ ret'.status = 200
                     /\ BillingOf(u)' = Append(BillingOf(u),
                                               [amount |-> PriceOf(t, c), status |-> "paid"])
                ELSE /\ ret'.status = 400
                     /\ billing' = billing
                     /\ subscriptions' = subscriptions
          /\ Renewed(u) =>
                BillingOf(u)' = Append(BillingOf(u),
                    [amount |-> PriceOf(subscriptions[u].tier, subscriptions[u].billing_cycle),
                     status |-> "paid"])
          /\ BillingOf(u)' # BillingOf(u) =>
                \/ ret'.op = "upgrade_subscription" /\ ret'.status = 200
                \/ Renewed(u)]_vars

\* C10, the case: a yearly Enterprise upgrade (1990), then a Starter upgrade on
\* a cycle that is not yearly (29), then an auto-renewal of that (29)
C10_ThreeRecords ==
    \E u \in DOMAIN billing :
        /\ Len(billing[u]) = 3
        /\ billing[u][1] = [amount |-> 1990, status |-> "paid"]
        /\ billing[u][2] = [amount |-> 29, status |-> "paid"]
        /\ billing[u][3] = [amount |-> 29, status |-> "paid"]
        /\ subscriptions[u].billing_cycle = "quarterly"
        /\ subscriptions[u].end_date > subscriptions[u].start_date + MonthlyDays
        /\ ret.op = "check_subscription_status"

\* ------------------------------------------------------------------------
\* SpecAuto: the automation manager, its jobs and the scheduler thread
\* ------------------------------------------------------------------------
AutoDayLists == {<<>>, <<"monday">>, <<"wednesday", "monday">>}

\* the settings dicts of the requests: with and without the optional keys
SettingsInputs ==
    {[niche |-> "tech", upload_days |-> d, upload_time |-> DefaultTime, enabled |-> e] :
        d \in AutoDayLists, e \in BOOLEAN}
    \cup {[niche |-> "", upload_days |-> <<"monday">>, upload_time |-> DefaultTime,
           enabled |-> TRUE],
          [niche |-> "tech", upload_days |-> <<"monday">>]}

SaveSettings(u, s) ==
    /\ save_user_settings(u, s)
    /\ UNCHANGED <<running, clock, prepared, settingsArg, videoVars, subVars, threadVars, intentArgs>>

SetEnabled(u, enabled) ==
    /\ set_enabled(u, enabled)
    /\ UNCHANGED <<running, clock, prepared, settingsArg, videoVars, subVars, threadVars, intentArgs>>

NextAuto ==
    \/ \E u \in AutoUsers, s \in SettingsInputs : SaveSettings(u, s)
    \/ \E u \in AutoUsers, e \in BOOLEAN : SetEnabled(u, e)
    \/ \E ok \in BOOLEAN : RunPending(ok)
    \/ start_scheduler
    \/ AutoTick

SpecAuto == InitSub /\ [][NextAuto]_vars

\* the jobs in js that carry the tag u
JobsOf(js, u) == SelectSeq(js, LAMBDA j : j.tag = u)

\* C7: set_enabled(user, False) leaves no scheduled job of the user and a
\* next_upload of None, and while the user's automation is disabled the
\* scheduler loop runs no job of the user and appends no prepared video
C7_DisabledStops ==
    [][\A u \in AutoUsers :
          /\ SetEnabled(u, FALSE) =>
                /\ JobsOf(jobs, u)' = <<>>
                /\ JobsOf(ownJobs, u)' = <<>>
                /\ get_next_upload(u)' = NoMoment
          /\ (u \in DOMAIN settings /\ ~settings[u].enabled /\ \E ok \in BOOLEAN : RunPending(ok)) =>
                /\ JobsOf(jobs, u)' = JobsOf(jobs, u)
                /\ prepared'[u] = prepared[u]]_vars

\* ------------------------------------------------------------------------
\* SpecCalc: _calculate_next_upload applied to every weekday, time of day,
\* list of upload days and upload time
\* ------------------------------------------------------------------------
\* the lists of up to n distinct day names
RECURSIVE DayLists(_)
DayLists(n) ==
    IF n = 0 THEN {<<>>}
    ELSE LET shorter == DayLists(n - 1)
         IN  shorter \cup {Append(l, d) : l \in shorter, d \in DayNames}

NoRepeat(l) == \A i, j \in 1..Len(l) : l[i] = l[j] => i = j

TimeInputs == {<<0, 9, 0, 0>>, <<1, 8, 3, 0>>}

CalcInputs ==
    {[upload_days |-> d, upload_time |-> t] :
        d \in {l \in DayLists(MaxDays) : l # <<>> /\ NoRepeat(l)}, t \in TimeInputs}

InitCalc ==
    /\ InitVideoStore
    /\ InitThreadStore
    /\ intentArgs = NoIntentArgs
    /\ now = 0
    /\ users = EmptyDict
    /\ subscriptions = EmptyDict
    /\ billing = EmptyDict
    /\ usage = EmptyDict
    /\ ret = NoResponse
    /\ settings = EmptyDict
    /\ jobs = <<>>
    /\ ownJobs = <<>>
    /\ running = FALSE
    /\ prepared = [u \in AutoUsers |-> 0]
    /\ clock \in {Moment(d, t) : d \in 0..6, t \in Slots}
    /\ settingsArg \in CalcInputs

Calculate ==
    /\ ret' = Response("_calculate_next_upload", 200, calculate_next_upload(settingsArg, clock))
    /\ UNCHANGED <<settings, jobs, ownJobs, running, clock, prepared, settingsArg,
                   videoVars, subVars, threadVars, intentArgs>>

NextCalc == Calculate

SpecCalc == InitCalc /\ [][NextCalc]_vars

\* the moments of the coming week that fall on one of upload_days at
\* upload_time and are strictly after c
UploadMoments(s, c) ==
    {m \in {Moment(d, ParseTime(s.upload_time)) : d \in c.day..(c.day + 7)} :
        /\ \E i \in 1..Len(s.upload_days) : s.upload_days[i] = CurrentDay(m)
        /\ ~MomentLE(m, c)}

\* C8: the result of _calculate_next_upload is the earliest moment strictly
\* after now that falls on one of the upload_days at upload_time
C8_EarliestUpload ==
    ret.op = "_calculate_next_upload" =>
        /\ ret.detail \in UploadMoments(settingsArg, clock)
        /\ \A m \in UploadMoments(settingsArg, clock) : MomentLE(ret.detail, m)

\* ------------------------------------------------------------------------
\* Claims about check_subscription_status (SpecSub)
\* ------------------------------------------------------------------------
\* the length the claims state for a billing cycle
CycleLength(cycle) == IF cycle = "yearly" THEN 365 ELSE 30

\* C11: check_subscription_status on an active subscription whose end_date has
\* passed moves end_date by exactly one billing cycle from the old end_date (365
\* days yearly, 30 days otherwise), appends exactly one billing record, keeps
\* the status active and changes nothing else of the record; on an active
\* subscription whose end_date has not passed it changes no store
C11_AutoRenew ==
    [][\A u \in SubUsers :
          (CheckStatus(u) /\ u \in DOMAIN subscriptions /\ subscriptions[u].status = "active") =>
              LET sub == subscriptions[u]
              IN  IF now > sub.end_date
                  THEN /\ subscriptions' = [subscriptions EXCEPT
                              ![u].end_date = sub.end_date + CycleLength(sub.billing_cycle)]
                       /\ subscriptions'[u].status = "active"
                       /\ Len(BillingOf(u)') = Len(BillingOf(u)) + 1
                       /\ SubSeq(BillingOf(u)', 1, Len(BillingOf(u))) = BillingOf(u)
                       /\ ret'.detail = "active"
                  ELSE /\ subscriptions' = subscriptions
                       /\ billing' = billing
                       /\ usage' = usage
                       /\ users' = users
                       /\ ret'.detail = "active"]_vars

\* C11, the case: a yearly subscription was renewed once, a year past its first
\* end date, and is active with two billing records
C11_RenewedYearly ==
    \E u \in DOMAIN subscriptions :
        /\ ret.op = "check_subscription_status"
        /\ subscriptions[u].status = "active"
        /\ subscriptions[u].billing_cycle = "yearly"
        /\ subscriptions[u].end_date = subscriptions[u].start_date + 2 * 365
        /\ Len(BillingOf(u)) = 2

\* C12: check_subscription_status on a trial after trial_ends stores status
\* expired and tier Free, returns expired and creates no billing record; on a
\* trial not after trial_ends it returns trial and changes nothing; on an
\* expired subscription it returns expired and changes nothing
C12_TrialExpires ==
    [][\A u \in SubUsers :
          (CheckStatus(u) /\ u \in DOMAIN subscriptions) =>
              LET sub == subscriptions[u]
              IN  /\ (sub.status = "trial" /\ now > sub.trial_ends) =>
                        /\ subscriptions'[u].status = "expired"
                        /\ subscriptions'[u].tier = "Free"
                        /\ ret'.detail = "expired"
                        /\ billing' = billing
                  /\ (sub.status = "trial" /\ now <= sub.trial_ends) =>
                        /\ ret'.detail = "trial"
                        /\ subscriptions' = subscriptions
                        /\ billing' = billing
                  /\ sub.status = "expired" =>
                        /\ ret'.detail = "expired"
                        /\ subscriptions' = subscriptions
                        /\ billing' = billing]_vars

\* C12, the case: the trial has expired and a later call, made after the end
\* date written at the expiry, has answered expired again
C12_StaysExpired ==
    \E u \in DOMAIN subscriptions :
        /\ ret.op = "check_subscription_status"
        /\ ret.detail = "expired"
        /\ subscriptions[u].status = "expired"
        /\ subscriptions[u].tier = "Free"
        /\ subscriptions[u].trial_ends = TrialDays
        /\ now > subscriptions[u].end_date
        /\ BillingOf(u) = <<>>

\* ------------------------------------------------------------------------
\* Claims about the validation of automation settings (SpecAuto)
\* ------------------------------------------------------------------------
\* C13: save_user_settings with a missing or empty niche, or with no
\* upload_days, is answered 400 with 'Video niche is required' or 'At least one
\* upload day is required', and leaves the stored settings and the jobs as
\* they are
C13_Rejected400 ==
    [][\A u \in AutoUsers, s \in SettingsInputs :
          (SaveSettings(u, s) /\ (Get(s, "niche", "") = "" \/ Get(s, "upload_days", <<>>) = <<>>)) =>
              /\ ret'.status = 400
              /\ ret'.detail = IF Get(s, "niche", "") = ""
                               THEN "Video niche is required"
                               ELSE "At least one upload day is required"
              /\ settings' = settings
              /\ jobs' = jobs
              /\ ownJobs' = ownJobs]_vars

\* ------------------------------------------------------------------------
\* SpecLogin: signups, logins, and accounts deactivated in users.json
\* ------------------------------------------------------------------------
Login(email, password) ==
    /\ login_user(email, password)
    /\ UNCHANGED <<autoVars, threadVars, intentArgs, videoVars, subVars>>

\* is_active is written by no function of the program: an account is
\* deactivated by an edit of users.json, which login_user then reads
Deactivate(uid) ==
    /\ uid \in DOMAIN users
    /\ users[uid].is_active
    /\ users' = [users EXCEPT ![uid].is_active = FALSE]
    /\ ret' = NoResponse
    /\ UNCHANGED <<autoVars, threadVars, intentArgs, videoVars, subscriptions, billing, usage, now>>

NextLogin ==
    \/ \E uid \in UserIds, e \in Emails, p \in Passwords : Signup(uid, e, p)
    \/ \E e \in Emails, p \in Passwords : Login(e, p)
    \/ \E uid \in UserIds : Deactivate(uid)

SpecLogin == InitSub /\ [][NextLogin]_vars

\* the password is the one the account with the email was registered with
PasswordMatches(email, password) ==
    \E id \in DOMAIN users :
        users[id].email = email /\ users[id].password_hash = hash_password(password)

\* C14: a login with an unknown email and a login with a registered email and
\* a wrong password get one and the same answer, 401 'Invalid email or
\* password'; no login changes a store; and a token is returned only for the
\* user whose email it is, with the matching password and an active account
C14_LoginRevealsNothing ==
    [][\A e \in Emails, p \in Passwords : Login(e, p) =>
          /\ (~EmailRegistered(e) \/ ~PasswordMatches(e, p)) =>
                ret' = Response("login_user", 401, "Invalid email or password")
          /\ users' = users
          /\ subscriptions' = subscriptions
          /\ billing' = billing
          /\ usage' = usage
          /\ ret'.status = 200 =>
                \E id \in DOMAIN users :
                    /\ users[id].email = e
                    /\ users[id].password_hash = hash_password(p)
                    /\ users[id].is_active
                    /\ ret'.detail.access_token = [sub |-> id]
          /\ ret'.status # 200 => ret'.status = 401]_vars

\* C14, the case: every email of the model is registered, so the login just
\* refused with 'Invalid email or password' named a registered email and a
\* wrong password
C14_WrongPasswordRefused ==
    /\ ret = Response("login_user", 401, "Invalid email or password")
    /\ \A e \in Emails : EmailRegistered(e)

\* ------------------------------------------------------------------------
\* SpecThreads: the request handler, the background workers and the scheduler
\* thread on one user's videos.json
\* ------------------------------------------------------------------------
NextThreads ==
    \/ RequestRead
    \/ RequestWrite
    \/ \E id \in 1..(MaxUserVideos + MaxPrepared), o \in Outcomes : WorkerRead(id, o)
    \/ \E id \in 1..(MaxUserVideos + MaxPrepared) : WorkerWrite(id)
    \/ AutoRead
    \/ AutoWrite

SpecThreads == InitSub /\ [][NextThreads]_vars

\* C15: a record once in the user's videos.json stays in it, and the final
\* status update of a worker that has finished is in the stored record
C15_NoLostUpdate ==
    [][/\ IdsOf(userVideos) \subseteq IdsOf(userVideos')
       /\ \A id \in DOMAIN threads'.workers :
             threads'.workers[id].pc = "done" =>
                \E i \in 1..Len(userVideos') :
                    /\ userVideos'[i].id = id
                    /\ userVideos'[i].status = threads'.workers[id].outcome]_vars

\* ------------------------------------------------------------------------
\* Claims about artifact paths and deleted videos (SpecVideo)
\* ------------------------------------------------------------------------
\* C16: a record with status completed holds the paths its five steps stored:
\* script_path, audio_path, video_path, thumbnail_path and local_path
C16_PathsKept ==
    \A v \in DOMAIN videos :
        videos[v].status = "completed" =>
            \A i \in 1..Len(Steps) : videos[v][PathKey(Steps[i])] = PathOf(v, Steps[i])

\* C17: an id for which delete_video has returned True has no record in
\* videos.json
C17_DeletedStaysDeleted == \A v \in deleted : v \notin DOMAIN videos

\* ------------------------------------------------------------------------
\* Claims about the jobs of a user (SpecAuto)
\* ------------------------------------------------------------------------
\* C18: after a save_user_settings with enabled set, and after a
\* set_enabled(True), that succeeded, the scheduler the run_pending loop polls
\* holds exactly one job of the user for each configured upload day, so that a
\* slot runs _create_automated_video once
C18_OneJobPerDay ==
    [][\A u \in AutoUsers :
          (/\ \/ \E s \in SettingsInputs : SaveSettings(u, s) /\ Get(s, "enabled", FALSE)
              \/ SetEnabled(u, TRUE)
           /\ ret'.status = 200) =>
              /\ Len(JobsOf(jobs, u)') = Len(settings'[u].upload_days)
              /\ \A i \in 1..Len(JobsOf(jobs, u)') :
                    JobsOf(jobs, u)'[i].start_day = settings'[u].upload_days[i]]_vars

\* ------------------------------------------------------------------------
\* SpecProfile: one user signs up, logs in, and the subscription changes
\* ------------------------------------------------------------------------
NextProfile ==
    \/ \E u \in SubUsers : Signup(u, EmailOf(u), "pw")
    \/ \E u \in SubUsers, p \in Passwords : Login(EmailOf(u), p)
    \/ \E u \in SubUsers, t \in TierInputs : Upgrade(u, t, "monthly")
    \/ \E u \in SubUsers : Cancel(u)
    \/ \E u \in SubUsers : CheckStatus(u)
    \/ \E d \in SubTicks : Tick(d, MaxNow)

SpecProfile == InitSub /\ [][NextProfile]_vars

\* C19: upgrade_subscription, cancel_subscription and check_subscription_status
\* write the subscriptions and billing stores only: the users store, with the
\* subscription_tier of the profile, stays as it is, and a successful login
\* returns that stored subscription_tier whatever the subscription says
C19_ProfileUntouched ==
    [][\A u \in SubUsers :
          /\ ((\E t \in TierInputs : Upgrade(u, t, "monthly")) \/ Cancel(u) \/ CheckStatus(u)) =>
                /\ users' = users
                /\ usage' = usage
                /\ videos' = videos
          /\ \A p \in Passwords : (Login(EmailOf(u), p) /\ ret'.status = 200) =>
                /\ ret'.detail.subscription_tier = users[u].subscription_tier
                /\ users' = users]_vars

\* C19, the case: the subscription is Enterprise after an upgrade and the
\* login just answered still reports the tier written at signup, Free
C19_StaleTier ==
    \E u \in DOMAIN users :
        /\ ret.op = "login_user"
        /\ ret.status = 200
        /\ ret.detail.subscription_tier = "Free"
        /\ users[u].subscription_tier = "Free"
        /\ u \in DOMAIN subscriptions
        /\ subscriptions[u].tier = "Enterprise"
        /\ subscriptions[u].status = "active"

\* ------------------------------------------------------------------------
\* SpecIntent: analyze_intent applied to messages and LLM outcomes
\* ------------------------------------------------------------------------
Messages ==
    {<<"M", "a", "k", "e">>,
     <<"p", "l", "e", "a", "s", "e", " ", "C", "R", "E", "A", "T", "E", " ", "o", "n", "e">>,
     <<"N", "e", "w", " ", "V", "i", "d", "e", "o">>,
     <<"n", "e", "w", " ", " ", "v", "i", "d", "e", "o">>,
     <<"E", "d", "i", "t", " ", "t", "h", "e", " ", "S", "c", "r", "i", "p", "t">>,
     <<"M", "a", "k", "e", " ", "s", "c", "r", "i", "p", "t">>,
     <<"P", "u", "b", "l", "i", "s", "h", " ", "m", "y", " ", "S", "c", "r", "i", "p", "t">>,
     <<"S", "H", "O", "W">>,
     <<"w", "h", "a", "t", "s", " ", "t", "h", "e", " ", "s", "t", "a", "t", "u", "s">>,
     <<"U", "p", "l", "o", "a", "d", " ", "t", "o", " ", "Y", "o", "u", "T", "u", "b", "e">>,
     <<"h", "e", "l", "l", "o">>,
     <<"p", "r", "o", "g", "r", "e", "s", "s", " ", "o", "f", " ", "u", "p", "l", "o", "a", "d">>,
     <<>>}

InitIntent ==
    /\ InitVideoStore
    /\ InitThreadStore
    /\ InitAutoStore
    /\ now = 0
    /\ users = EmptyDict
    /\ subscriptions = EmptyDict
    /\ billing = EmptyDict
    /\ usage = EmptyDict
    /\ ret = NoResponse
    /\ intentArgs \in [message : Messages, llm : LlmOutcomes]

AnalyzeIntent ==
    /\ ret' = Response("analyze_intent", 200, analyze_intent(intentArgs.message, intentArgs.llm))
    /\ UNCHANGED <<autoVars, threadVars, intentArgs, videoVars, subVars>>

NextIntent == AnalyzeIntent

SpecIntent == InitIntent /\ [][NextIntent]_vars

\* one of the words is a substring of the lower-cased message
AnyWord(message, words) == \E w \in words : Contains(lower(message), w)

\* the intent the claim states for a message the keywords decide
KeywordIntent(message) ==
    IF AnyWord(message, {<<"c", "r", "e", "a", "t", "e">>, <<"m", "a", "k", "e">>, <<"g", "e", "n", "e", "r", "a", "t", "e">>, <<"n", "e", "w", " ", "v", "i", "d", "e", "o">>})
    THEN "create_video"
    ELSE IF AnyWord(message, {<<"s", "c", "r", "i", "p", "t">>, <<"m", "o", "d", "i", "f", "y">>, <<"c", "h", "a", "n", "g", "e">>, <<"e", "d", "i", "t">>})
    THEN "modify_script"
    ELSE IF AnyWord(message, {<<"s", "t", "a", "t", "u", "s">>, <<"p", "r", "o", "g", "r", "e", "s", "s">>, <<"h", "o", "w">>})
    THEN "get_status"
    ELSE IF AnyWord(message, {<<"u", "p", "l", "o", "a", "d">>, <<"y", "o", "u", "t", "u", "b", "e">>, <<"p", "u", "b", "l", "i", "s", "h">>})
    THEN "upload_video"
    ELSE "general_chat"

\* C20: when the LLM call raised, returned nothing, or returned text that is
\* not valid JSON, analyze_intent returns the intent of the first keyword group,
\* in the order create_video, modify_script, get_status, upload_video, with a
\* substring match in the lower-cased message, and general_chat when there is
\* none; when the LLM returned valid JSON, the parsed value is returned
C20_KeywordFallback ==
    ret.op = "analyze_intent" =>
        LET llm == intentArgs.llm
            failed == \/ llm.kind = "raise"
                      \/ llm.kind = "none"
                      \/ llm.text = ""
                      \/ json_loads(llm.text).raises = JSONDecodeError
        IN  IF failed
            THEN ret.detail.intent = KeywordIntent(intentArgs.message)
            ELSE ret.detail = json_loads(llm.text).value

\* C20, the case: the LLM answered with a sentence around the JSON, which does
\* not parse, and a message with words of two groups got the intent of the earlier
C20_FirstGroupWins ==
    /\ ret.op = "analyze_intent"
    /\ intentArgs.llm.kind = "text"
    /\ intentArgs.llm.text = "Here is the JSON: {\"intent\": \"help\"}"
    /\ Contains(lower(intentArgs.message), <<"p", "u", "b", "l", "i", "s", "h">>)
    /\ Contains(lower(intentArgs.message), <<"s", "c", "r", "i", "p", "t">>)
    /\ ret.detail.intent = "modify_script"

====
